---- MODULE Spec2Model ----
(***************************************************************************)
(* The websocket base-frame codec of src/src/codec/base.rs: FrameCodec,    *)
(* its decode state machine over an EasyBuf and its encode, driven by a    *)
(* sender that encodes frames onto a transport and a receiver that moves   *)
(* transport bytes into the buffer in chunks and calls decode. encode and  *)
(* apply_mask are also run alone, on inputs drawn from bounded sets.       *)
(* The message assembler and the connection, which are not in base.rs, are *)
(* modelled from sections 4.3, 4.4, 5 and 7 of the specification.          *)
(***************************************************************************)
EXTENDS Integers, Sequences, FiniteSets, TLC

\* ------------------------------------------------------------------ bounds

\* Frames and raw headers put on the transport in one run.
MaxFrames == 2
\* Frames remembered in the history of returned frames.
MaxEmit == 2
\* Chunks the transport delivers in one run.
MaxChunks == 3
\* Bytes of a chunk that is not all the transport holds.
MaxChunk == 6
\* Longest payload of the long-payload frames (one past the control limit).
LongLen == 126
\* Frames encoded into one out_buf when encode runs alone.
MaxEncodes == 2
\* Applications of apply_mask to one buffer when it runs alone.
MaxApply == 2
\* Longest buffer apply_mask runs on alone.
MaxData == 5
\* Frames handed to the message assembler in one run.
MaxFed == 5
\* Frames on the transport, both directions, after which the applications
\* of the two endpoints start nothing new.
MaxOut == 3

\* --------------------------------------------------------------- constants

TWO_EXT == 126
EIGHT_EXT == 127

\* ------------------------------------------------------------ bytes, bits

Byte == 0..255

\* b & (1 << k) != 0
BitSet(b, k) == (b \div (2 ^ k)) % 2 = 1

\* a ^ b on u8
Xor8(a, b) ==
    LET bit(k) == (((a \div (2 ^ k)) % 2) + ((b \div (2 ^ k)) % 2)) % 2
    IN  bit(0) + 2 * bit(1) + 4 * bit(2) + 8 * bit(3)
        + 16 * bit(4) + 32 * bit(5) + 64 * bit(6) + 128 * bit(7)

\* a | b on u8, for a and b with no common bit set or b's bits a subset to add
Or8(a, b) ==
    LET bit(k) == IF BitSet(a, k) \/ BitSet(b, k) THEN 1 ELSE 0
    IN  bit(0) + 2 * bit(1) + 4 * bit(2) + 8 * bit(3)
        + 16 * bit(4) + 32 * bit(5) + 64 * bit(6) + 128 * bit(7)

\* Option<Vec<u8>>
None == [some |-> FALSE, v |-> <<>>]
Some(v) == [some |-> TRUE, v |-> v]

\* ------------------------------------------------------------------- u64
\* A u64 is kept as its 8 bytes, least significant first, so that values up
\* to 2^64-1 and their wrap-around are exact.

U64Zero == <<0, 0, 0, 0, 0, 0, 0, 0>>

\* n as u64, for 0 <= n < 2^31
U64FromNat(n) ==
    [i \in 1..8 |-> IF i <= 4 THEN (n \div (256 ^ (i - 1))) % 256 ELSE 0]

\* The value fits 24 bits.
U64Small(a) == \A i \in 4..8 : a[i] = 0

\* The value of a small u64.
U64ToNat(a) == a[1] + 256 * a[2] + 65536 * a[3]

RECURSIVE U64Carry(_, _, _)
U64Carry(a, b, i) ==
    IF i = 0 THEN 0 ELSE (a[i] + b[i] + U64Carry(a, b, i - 1)) \div 256

\* a + b modulo 2^64
U64Add(a, b) == [i \in 1..8 |-> (a[i] + b[i] + U64Carry(a, b, i - 1)) % 256]

\* a + b does not fit a u64
U64AddOverflows(a, b) == U64Carry(a, b, 8) = 1

RECURSIVE U64Borrow(_, _, _)
U64Borrow(a, b, i) ==
    IF i = 0 THEN 0
    ELSE IF a[i] - b[i] - U64Borrow(a, b, i - 1) < 0 THEN 1 ELSE 0

\* a - b modulo 2^64
U64Sub(a, b) == [i \in 1..8 |-> (a[i] - b[i] - U64Borrow(a, b, i - 1)) % 256]

RECURSIVE U64LtFrom(_, _, _)
U64LtFrom(a, b, i) ==
    IF i = 0 THEN FALSE
    ELSE IF a[i] # b[i] THEN a[i] < b[i]
    ELSE U64LtFrom(a, b, i - 1)

\* a < b
U64Lt(a, b) == U64LtFrom(a, b, 8)

\* 0_u32
U32Zero == <<0, 0, 0, 0>>

\* ------------------------------------------------------------ byteorder

\* read_u16::<BigEndian>
ReadU16BE(bytes) == bytes[1] * 256 + bytes[2]

\* read_u32::<BigEndian>; a u32 is kept as its 4 bytes, least significant
\* first
ReadU32BE(bytes) == [i \in 1..4 |-> bytes[5 - i]]

\* read_u64::<BigEndian>
ReadU64BE(bytes) == [i \in 1..8 |-> bytes[9 - i]]

\* write_u16::<BigEndian>
WriteU16BE(n) == <<(n \div 256) % 256, n % 256>>

\* write_u32::<BigEndian>
WriteU32BE(m) == [i \in 1..4 |-> m[5 - i]]

\* write_u64::<BigEndian>
WriteU64BE(a) == [i \in 1..8 |-> a[9 - i]]

\* ---------------------------------------------------------------- OpCode
\* frame::base::OpCode: the 16 four-bit codes, the reserved ones folded
\* into one variant.

OpCodes == {"Continue", "Text", "Binary", "Close", "Ping", "Pong", "Reserved"}

\* OpCode::from(u8)
OpCodeFrom(n) ==
    CASE n = 0 -> "Continue"
      [] n = 1 -> "Text"
      [] n = 2 -> "Binary"
      [] n = 8 -> "Close"
      [] n = 9 -> "Ping"
      [] n = 10 -> "Pong"
      [] OTHER -> "Reserved"

\* u8::from(OpCode), for the codes that are not reserved
OpCodeInto(op) ==
    CASE op = "Continue" -> 0
      [] op = "Text" -> 1
      [] op = "Binary" -> 2
      [] op = "Close" -> 8
      [] op = "Ping" -> 9
      [] op = "Pong" -> 10

\* OpCode::is_control
is_control(op) == op \in {"Close", "Ping", "Pong"}

\* OpCode::is_invalid
is_invalid(op) == op = "Reserved"

\* ------------------------------------------------------------------ utf8
\* util::utf8::validate over a byte slice: "complete" when the slice is
\* well-formed UTF-8, "incomplete" when it is well-formed up to a final
\* sequence that is cut short, "invalid" otherwise.

\* Bytes a sequence that starts with lead byte b has, 0 for no lead byte.
Utf8Width(b) ==
    CASE b < 128 -> 1
      [] b >= 194 /\ b <= 223 -> 2
      [] b >= 224 /\ b <= 239 -> 3
      [] b >= 240 /\ b <= 244 -> 4
      [] OTHER -> 0

\* The range of the byte that follows lead byte b.
Utf8SecondOk(b, c) ==
    CASE b = 224 -> c >= 160 /\ c <= 191
      [] b = 237 -> c >= 128 /\ c <= 159
      [] b = 240 -> c >= 144 /\ c <= 191
      [] b = 244 -> c >= 128 /\ c <= 143
      [] OTHER -> c >= 128 /\ c <= 191

RECURSIVE Utf8From(_, _)
Utf8From(bytes, i) ==
    IF i > Len(bytes) THEN "complete"
    ELSE LET w == Utf8Width(bytes[i])
             have == Len(bytes) - i + 1
             n == IF have < w THEN have ELSE w
             tailOk == \A k \in 1..(n - 1) :
                          IF k = 1 THEN Utf8SecondOk(bytes[i], bytes[i + 1])
                          ELSE bytes[i + k] >= 128 /\ bytes[i + k] <= 191
         IN  IF w = 0 \/ ~tailOk THEN "invalid"
             ELSE IF have < w THEN "incomplete"
             ELSE Utf8From(bytes, i + w)

Utf8Validate(bytes) == Utf8From(bytes, 1)

\* ------------------------------------------------------------- FrameCodec

DecodeStates == {"NONE", "HEADER", "LENGTH", "MASK", "FULL"}

\* #[derive(Default)] FrameCodec
DefaultCodec ==
    [client |-> FALSE, fin |-> FALSE, rsv1 |-> FALSE, rsv2 |-> FALSE,
     rsv3 |-> FALSE, opcode |-> "Continue", masked |-> FALSE,
     length_code |-> 0, payload_length |-> U64Zero, mask_key |-> U32Zero,
     extension_data |-> None, application_data |-> None,
     state |-> "NONE", min_len |-> U64Zero, reserved_bits |-> 0]

\* FrameCodec::set_client
set_client(c, b) == [c EXCEPT !.client = b]

\* FrameCodec::set_reserved_bits
set_reserved_bits(c, r) == [c EXCEPT !.reserved_bits = r]

\* An apply_mask that takes the mask bytes in the machine's little-endian
\* order.
apply_mask_native_order(data, mask) ==
    [i \in 1..Len(data) |-> Xor8(data[i], mask[((i - 1) % 4) + 1])]

\* FrameCodec::apply_mask: byte i is XORed with byte (i mod 4) of the
\* big-endian mask
apply_mask(data, mask) ==
    LET mask_buf == WriteU32BE(mask)
    IN  [i \in 1..Len(data) |-> Xor8(data[i], mask_buf[((i - 1) % 4) + 1])]

\* impl From<FrameCodec> for Frame
FrameFrom(c) ==
    [fin |-> c.fin, rsv1 |-> c.rsv1, rsv2 |-> c.rsv2, rsv3 |-> c.rsv3,
     masked |-> c.masked, opcode |-> c.opcode, mask |-> c.mask_key,
     payload_length |-> c.payload_length,
     application_data |-> c.application_data,
     extension_data |-> c.extension_data]

\* EasyBuf::drain_to(n): the first n bytes, and what stays in the buffer
DrainHead(b, n) == SubSeq(b, 1, n)

\* A drain_to that leaves the last byte it hands out in the buffer.
DrainRest_one_less(b, n) == IF n = 0 THEN b ELSE SubSeq(b, n, Len(b))

DrainRest(b, n) == SubSeq(b, n + 1, Len(b))

\* What one branch of decode's loop hands back: the codec, the buffer, and
\* how the branch ended ("continue" for the next turn of the loop).
Step(c, b, kind, msg) == [c |-> c, buf |-> b, kind |-> kind, msg |-> msg]

\* A decode that keeps min_len from one call to the next.
entry_min_len_kept(c) == c.min_len

\* self.min_len = 0 on entry to decode
entry_min_len(c) == U64Zero

\* A check that rejects the rsv bits reserved_bits enables.
rsv_invalid_inverted(flag, reserved_bits, k) == flag /\ BitSet(reserved_bits, k)

\* rsv bit set without its bit of reserved_bits (0x4: k = 2, 0x2: k = 1,
\* 0x1: k = 0)
rsv_invalid(flag, reserved_bits, k) == flag /\ ~BitSet(reserved_bits, k)

\* A decode without the check of the opcode.
invalid_opcode_unchecked(c) == FALSE

\* self.opcode.is_invalid()
invalid_opcode(c) == is_invalid(c.opcode)

\* self.opcode.is_control() && !self.fin
fragmented_control(c) == is_control(c.opcode) /\ ~c.fin

\* A check of the mask bit with the wrong sense.
missing_mask_inverted(c) == c.masked /\ c.client

\* !self.masked && self.client
missing_mask(c) == ~c.masked /\ c.client

\* A limit of control payloads that is off by one.
invalid_control_len_above_126(c) ==
    U64Lt(U64FromNat(126), c.payload_length) /\ is_control(c.opcode)

\* self.payload_length > 125 && self.opcode.is_control()
invalid_control_len(c) ==
    U64Lt(U64FromNat(125), c.payload_length) /\ is_control(c.opcode)

\* buf_len < size, size being min_len as usize (a 64-bit usize)
short_of(buf_len, c) == U64Lt(U64FromNat(buf_len), c.min_len)

\* DecodeState::NONE: the two header bytes
DecodeNone(c0, b, buf_len) ==
    LET c1 == [c0 EXCEPT !.min_len = U64Add(@, U64FromNat(2))]
        first == b[1]
        second == b[2]
        rest == DrainRest(b, 2)
        c2 == [c1 EXCEPT !.fin = BitSet(first, 7), !.rsv1 = BitSet(first, 6)]
        c3 == [c2 EXCEPT !.rsv2 = BitSet(first, 5)]
        c4 == [c3 EXCEPT !.rsv3 = BitSet(first, 4)]
        c5 == [c4 EXCEPT !.opcode = OpCodeFrom(first % 16)]
        c6 == [c5 EXCEPT !.masked = BitSet(second, 7)]
        c7 == [c6 EXCEPT !.length_code = second % 128, !.state = "HEADER"]
    IN  IF short_of(buf_len, c1) THEN Step(c1, b, "None", "")
        ELSE IF rsv_invalid(c2.rsv1, c2.reserved_bits, 2)
             THEN Step(c2, rest, "Err", "invalid rsv1 bit set")
        ELSE IF rsv_invalid(c3.rsv2, c3.reserved_bits, 1)
             THEN Step(c3, rest, "Err", "invalid rsv2 bit set")
        ELSE IF rsv_invalid(c4.rsv3, c4.reserved_bits, 0)
             THEN Step(c4, rest, "Err", "invalid rsv3 bit set")
        ELSE IF invalid_opcode(c5)
             THEN Step(c5, rest, "Err", "invalid opcode set")
        ELSE IF fragmented_control(c5)
             THEN Step(c5, rest, "Err", "control frames must not be fragmented")
        ELSE IF missing_mask(c6)
             THEN Step(c6, rest, "Err", "all client frames must have a mask")
        ELSE Step(c7, rest, "continue", "")

\* The end of DecodeState::HEADER, once payload_length is set
HeaderDone(c, b) ==
    IF invalid_control_len(c) THEN Step(c, b, "Err", "invalid control frame")
    ELSE Step(c, b, "continue", "")

\* DecodeState::HEADER: the extended length
DecodeHeader(c0, b, buf_len) ==
    IF c0.length_code = TWO_EXT THEN
        LET c1 == [c0 EXCEPT !.min_len = U64Add(@, U64FromNat(2))]
        IN  IF short_of(buf_len, c1)
            THEN Step([c1 EXCEPT !.min_len = U64Sub(@, U64FromNat(2))], b, "None", "")
            ELSE HeaderDone(
                    [c1 EXCEPT !.payload_length = U64FromNat(ReadU16BE(DrainHead(b, 2))),
                               !.state = "LENGTH"],
                    DrainRest(b, 2))
    ELSE IF c0.length_code = EIGHT_EXT THEN
        LET c1 == [c0 EXCEPT !.min_len = U64Add(@, U64FromNat(8))]
        IN  IF short_of(buf_len, c1)
            THEN Step([c1 EXCEPT !.min_len = U64Sub(@, U64FromNat(8))], b, "None", "")
            ELSE HeaderDone(
                    [c1 EXCEPT !.payload_length = ReadU64BE(DrainHead(b, 8)),
                               !.state = "LENGTH"],
                    DrainRest(b, 8))
    ELSE HeaderDone(
            [c0 EXCEPT !.payload_length = U64FromNat(c0.length_code),
                       !.state = "LENGTH"],
            b)

\* DecodeState::LENGTH: the mask key
DecodeLength(c0, b, buf_len) ==
    IF c0.masked THEN
        LET c1 == [c0 EXCEPT !.min_len = U64Add(@, U64FromNat(4))]
        IN  IF short_of(buf_len, c1)
            THEN Step([c1 EXCEPT !.min_len = U64Sub(@, U64FromNat(4))], b, "None", "")
            ELSE Step([c1 EXCEPT !.mask_key = ReadU32BE(DrainHead(b, 4)),
                                 !.state = "MASK"],
                      DrainRest(b, 4), "continue", "")
    ELSE Step([c0 EXCEPT !.mask_key = U32Zero, !.state = "MASK"], b, "continue", "")

\* DecodeState::MASK with fewer bytes than the payload: the early check of
\* a Text payload
MaskShort(c, b) ==
    IF c.opcode = "Text" THEN
        IF c.masked THEN
            IF Utf8Validate(apply_mask(b, c.mask_key)) = "invalid"
            THEN Step(c, b, "Err", "error during UTF-8 validation")
            ELSE Step(c, b, "None", "")
        ELSE Step(c, b, "Err", "cannot unmask data")
    ELSE Step(c, b, "None", "")

\* DecodeState::MASK with the whole payload buffered
MaskFull(c, b) ==
    IF U64Lt(U64Zero, c.payload_length) THEN
        IF U64Lt(U64FromNat(Len(b)), c.payload_length)
        THEN Step(c, b, "Panic", "drain_to")
        ELSE LET n == U64ToNat(c.payload_length)
             IN  IF c.masked
                 THEN Step([c EXCEPT !.application_data =
                                        Some(apply_mask(DrainHead(b, n), c.mask_key)),
                                     !.state = "FULL"],
                           DrainRest(b, n), "continue", "")
                 ELSE Step(c, DrainRest(b, n), "Err", "cannot unmask data")
    ELSE Step([c EXCEPT !.state = "FULL"], b, "continue", "")

\* DecodeState::MASK: the payload. min_len += payload_length overflows a
\* u64 for the largest lengths: a build with overflow checks panics there,
\* one without wraps around.
DecodeMask(c0, b, buf_len, build) ==
    IF U64AddOverflows(c0.min_len, c0.payload_length) /\ build = "debug"
    THEN Step(c0, b, "Panic", "attempt to add with overflow")
    ELSE LET c1 == [c0 EXCEPT !.min_len = U64Add(@, c0.payload_length)]
         IN  IF short_of(buf_len, c1)
             THEN MaskShort([c1 EXCEPT !.min_len = U64Sub(@, c0.payload_length)], b)
             ELSE MaskFull(c1, b)

\* DecodeState::FULL => break, and what follows the loop
DecodeFull(c, b) == Step(c, b, "Frame", "")

\* The loop of decode
RECURSIVE DecodeLoop(_, _, _, _)
DecodeLoop(c, b, buf_len, build) ==
    LET r == CASE c.state = "NONE" -> DecodeNone(c, b, buf_len)
               [] c.state = "HEADER" -> DecodeHeader(c, b, buf_len)
               [] c.state = "LENGTH" -> DecodeLength(c, b, buf_len)
               [] c.state = "MASK" -> DecodeMask(c, b, buf_len, build)
               [] c.state = "FULL" -> DecodeFull(c, b)
    IN  IF r.kind = "continue" THEN DecodeLoop(r.c, r.buf, buf_len, build) ELSE r

\* FrameCodec::decode
decode(c, b, build) ==
    IF Len(b) = 0 THEN Step(c, b, "None", "")
    ELSE DecodeLoop([c EXCEPT !.min_len = entry_min_len(c)], b, Len(b), build)

\* Length bytes whose 16-bit form is taken for 65536 too.
EncodeLength_two_ext_to_65536(len, masked) ==
    LET mbit == IF masked THEN 128 ELSE 0
    IN  IF U64Lt(len, U64FromNat(TWO_EXT)) THEN <<Or8(mbit, len[1])>>
        ELSE IF U64Lt(len, U64FromNat(65537))
             THEN <<Or8(mbit, TWO_EXT)>> \o WriteU16BE(U64ToNat(len))
        ELSE <<Or8(mbit, EIGHT_EXT)>> \o WriteU64BE(len)

\* The length bytes of encode
EncodeLength(len, masked) ==
    LET mbit == IF masked THEN 128 ELSE 0
    IN  IF U64Lt(len, U64FromNat(TWO_EXT)) THEN <<Or8(mbit, len[1])>>
        ELSE IF U64Lt(len, U64FromNat(65536))
             THEN <<Or8(mbit, TWO_EXT)>> \o WriteU16BE(U64ToNat(len))
        ELSE <<Or8(mbit, EIGHT_EXT)>> \o WriteU64BE(len)

\* The first byte of encode
first_byte(msg) ==
    LET b0 == IF msg.fin THEN 128 ELSE 0
        b1 == IF msg.rsv1 THEN Or8(b0, 64) ELSE b0
        b2 == IF msg.rsv2 THEN Or8(b1, 32) ELSE b1
        b3 == IF msg.rsv3 THEN Or8(b2, 16) ELSE b2
    IN  Or8(b3, OpCodeInto(msg.opcode))

\* FrameCodec::encode: out_buf after msg is appended
encode(msg, out) ==
    out \o <<first_byte(msg)>>
            \o EncodeLength(msg.payload_length, msg.masked)
            \o (IF msg.masked THEN WriteU32BE(msg.mask) ELSE <<>>)
            \o (IF msg.application_data.some THEN msg.application_data.v ELSE <<>>)

\* A frame as a peer may write it with the 64-bit length form, whatever its
\* length: the decoder does not ask for the shortest form.
WideBytes(msg) ==
    <<first_byte(msg), Or8(IF msg.masked THEN 128 ELSE 0, EIGHT_EXT)>>
        \o WriteU64BE(msg.payload_length)
        \o (IF msg.masked THEN WriteU32BE(msg.mask) ELSE <<>>)
        \o (IF msg.application_data.some THEN msg.application_data.v ELSE <<>>)

\* ------------------------------------------------------------ the inputs

\* The mask key of the masked frames: 0x01020304.
MaskKey == <<4, 3, 2, 1>>

\* A Frame as its setters build it; rsv is the three rsv bits as 4/2/1.
MkFrame(fin, rsv, opcode, masked, mask, data) ==
    [fin |-> fin, rsv1 |-> BitSet(rsv, 2), rsv2 |-> BitSet(rsv, 1),
     rsv3 |-> BitSet(rsv, 0), masked |-> masked, opcode |-> opcode,
     mask |-> mask, payload_length |-> U64FromNat(Len(data)),
     application_data |-> IF Len(data) = 0 THEN None ELSE Some(data),
     extension_data |-> None]

\* Frame::default()
NullFrame == MkFrame(FALSE, 0, "Continue", FALSE, U32Zero, <<>>)

SendOpCodes == OpCodes \ {"Reserved"}

\* 126 bytes 'a'
LongData == [i \in 1..LongLen |-> 97]

\* Every header flag and opcode with no payload, and one byte of payload.
HeaderFrames ==
    {MkFrame(fin, 0, op, m, IF m THEN MaskKey ELSE U32Zero, <<>>) :
        fin \in BOOLEAN, op \in SendOpCodes, m \in BOOLEAN}
    \cup {MkFrame(TRUE, 0, op, m, IF m THEN MaskKey ELSE U32Zero, <<97>>) :
        op \in {"Text", "Binary", "Ping"}, m \in BOOLEAN}

\* Text payloads: "é" in the clear and as it reads once XORed with MaskKey,
\* a byte that is never UTF-8, alone and before an 'a'; Binary payloads of
\* five bytes.
PayloadFrames ==
    {MkFrame(TRUE, 0, "Text", m, IF m THEN MaskKey ELSE U32Zero, d) :
        m \in BOOLEAN, d \in {<<195, 169>>, <<194, 171>>, <<255>>}}
    \cup {MkFrame(TRUE, 0, "Text", TRUE, MaskKey, <<255, 97>>)}
    \cup {MkFrame(TRUE, 0, "Binary", m, IF m THEN MaskKey ELSE U32Zero,
                  <<97, 98, 99, 100, 101>>) : m \in BOOLEAN}

\* Payloads of one byte more than a control frame may carry.
LongFrames ==
    {MkFrame(TRUE, 0, op, TRUE, MaskKey, LongData) : op \in {"Ping", "Binary"}}

\* Frames with rsv bits, and masked frames whose key is zero.
RsvFrames ==
    {MkFrame(TRUE, rsv, "Binary", TRUE, MaskKey, <<>>) : rsv \in {1, 2, 4, 7}}
    \cup {MkFrame(TRUE, 0, op, TRUE, U32Zero, <<97>>) : op \in {"Text", "Binary"}}

\* The frames a sender hands to encode first.
Frames == HeaderFrames \cup PayloadFrames \cup LongFrames \cup RsvFrames

\* The frames it hands to encode after the first: the one masked as the
\* receiver's mode asks.
FollowFrames ==
    {MkFrame(TRUE, 0, "Binary", TRUE, MaskKey, <<98>>),
     MkFrame(TRUE, 0, "Ping", FALSE, U32Zero, <<>>)}

\* The frames a peer writes with the 64-bit length form: one byte of
\* payload, none, a Ping that declares 126 bytes and has sent none yet, and
\* Binaries that declare 2^64 - 1 and 2^63 bytes.
WideFrames ==
    {MkFrame(TRUE, 0, "Binary", TRUE, MaskKey, <<97>>),
     MkFrame(TRUE, 0, "Binary", FALSE, U32Zero, <<>>),
     [MkFrame(TRUE, 0, "Ping", TRUE, MaskKey, <<>>)
         EXCEPT !.payload_length = U64FromNat(LongLen)],
     [MkFrame(TRUE, 0, "Binary", TRUE, MaskKey, <<97>>)
         EXCEPT !.payload_length = [i \in 1..8 |-> 255]],
     [MkFrame(TRUE, 0, "Binary", TRUE, MaskKey, <<>>)
         EXCEPT !.payload_length = [i \in 1..8 |-> IF i = 8 THEN 128 ELSE 0]]}

\* Raw two-byte headers a peer may write: every first byte, and a length of
\* 0 with and without the mask bit.
RawHeaders == {<<first, second>> : first \in Byte, second \in {0, 128}}

ClientChoices == BOOLEAN
ReservedBitsChoices == {0, 2, 5}

\* The builds of the crate: with and without integer overflow checks.
Builds == {"debug", "release"}

\* ------------------------------------------------------ the state machine

VARIABLES
    fc,       \* the FrameCodec
    buf,      \* the EasyBuf decode reads
    wire,     \* bytes written by the peer and not yet in buf
    sent,     \* what the peer wrote, in order
    ret,      \* what the decode call just made returned
    hdr,      \* the two header bytes that call parsed, if it parsed any
    from,     \* the DecodeState that call started in
    emitted,  \* the frames decode returned before its first failure
    failed,   \* a decode call has failed
    chunks,   \* the chunks delivered so far
    enc,      \* encode run alone: the Frame, out_buf before and after
    msk,      \* apply_mask run alone: the mask, the buffer before and after
    asm,      \* the message assembler
    asm0,     \* the message assembler before the last frame it was handed
    fed,      \* the frames handed to the message assembler, in order
    conn      \* the two Connections of one transport, by endpoint

codecVars == <<fc, buf, wire, sent, ret, hdr, from, emitted, failed, chunks>>
aloneVars == <<enc, msk>>
asmVars == <<asm, asm0, fed>>
vars == <<codecVars, aloneVars, asmVars, conn>>

Idle == [kind |-> "Idle", msg |-> "", frame |-> NullFrame]

CodecInit ==
    /\ fc = DefaultCodec
    /\ buf = <<>>
    /\ wire = <<>>
    /\ sent = <<>>
    /\ ret = Idle
    /\ hdr = <<>>
    /\ from = "-"
    /\ emitted = <<>>
    /\ failed = FALSE
    /\ chunks = 0

\* No Frame encoded yet into an empty out_buf.
EncInit == enc = [msg |-> NullFrame, before |-> <<>>, out |-> <<>>, n |-> 0]

\* No buffer handed to apply_mask yet.
MskIdle == msk = [mask |-> U32Zero, data |-> <<>>, out |-> <<>>, n |-> 0]

\* The assembler with no message open (section 4.3).
AsmStart ==
    [open |-> FALSE, opcode |-> "Continue", parts |-> <<>>, out |-> <<>>,
     up |-> <<>>, err |-> "ok"]

AsmInit == asm = AsmStart /\ asm0 = AsmStart /\ fed = <<>>

\* The endpoints of a transport.
Ends == {"a", "b"}
Peer(e) == IF e = "a" THEN "b" ELSE "a"

\* A Connection over an established transport (section 4.4): the close
\* state and the state it became Closed from, the fragments of the message
\* being sent that are not written yet, the control frames that wait for
\* the send stream, the frames written, the frames of the peer read, the
\* payloads of the Pings read (all, and those read while Open), whether a
\* protocol failure was met, and the control frames that had to wait for a
\* message.
ConnStart ==
    [cs |-> "Open", via |-> "-", sending |-> <<>>, pend |-> <<>>, out |-> <<>>,
     rd |-> 0, seen |-> <<>>, pings |-> <<>>, fatal |-> FALSE, held |-> 0]

ConnInit == conn = [e \in Ends |-> ConnStart]

Init == CodecInit /\ EncInit /\ MskIdle /\ AsmInit /\ ConnInit

NoCall == ret' = Idle /\ hdr' = <<>> /\ from' = "-"

\* fc.set_client(b), before any traffic
SetClient ==
    /\ sent = <<>>
    /\ \E b \in ClientChoices : fc' = set_client(fc, b)
    /\ NoCall
    /\ UNCHANGED <<buf, wire, sent, emitted, failed, chunks>>
    /\ UNCHANGED <<aloneVars, asmVars, conn>>

\* fc.set_reserved_bits(r), before any traffic
SetReservedBits ==
    /\ sent = <<>>
    /\ \E r \in ReservedBitsChoices : fc' = set_reserved_bits(fc, r)
    /\ NoCall
    /\ UNCHANGED <<buf, wire, sent, emitted, failed, chunks>>
    /\ UNCHANGED <<aloneVars, asmVars, conn>>

\* The peer encodes a frame onto the transport, before the receiver reads.
Send ==
    /\ Len(sent) < MaxFrames
    /\ chunks = 0
    /\ \A i \in 1..Len(sent) : sent[i].kind # "raw"
    /\ \E msg \in (IF sent = <<>> THEN Frames
                   ELSE {f \in FollowFrames : f.masked = fc.client}) :
          /\ wire' = encode(msg, wire)
          /\ sent' = Append(sent, [kind |-> "frame", msg |-> msg,
                                   bytes |-> encode(msg, <<>>)])
    /\ NoCall
    /\ UNCHANGED <<fc, buf, emitted, failed, chunks>>
    /\ UNCHANGED <<aloneVars, asmVars, conn>>

\* The peer writes a frame with the 64-bit length form.
SendWide ==
    /\ sent = <<>>
    /\ chunks = 0
    /\ \E msg \in WideFrames :
          /\ wire' = wire \o WideBytes(msg)
          /\ sent' = Append(sent, [kind |-> "wide", msg |-> msg,
                                   bytes |-> WideBytes(msg)])
    /\ NoCall
    /\ UNCHANGED <<fc, buf, emitted, failed, chunks>>
    /\ UNCHANGED <<aloneVars, asmVars, conn>>

\* The peer writes a raw header.
Inject ==
    /\ sent = <<>>
    /\ \E h \in RawHeaders :
          /\ wire' = wire \o h
          /\ sent' = Append(sent, [kind |-> "raw", msg |-> NullFrame, bytes |-> h])
    /\ NoCall
    /\ UNCHANGED <<fc, buf, emitted, failed, chunks>>
    /\ UNCHANGED <<aloneVars, asmVars, conn>>

RECURSIVE SentBytes(_)
SentBytes(n) == IF n = 0 THEN <<>> ELSE SentBytes(n - 1) \o sent[n].bytes

\* The bytes the receiver has taken off the transport.
Received == Len(SentBytes(Len(sent))) - Len(wire)

\* Chunks that end where a written frame ends.
ToFrameEnd == {Len(SentBytes(n)) - Received : n \in 1..Len(sent)}

\* A chunk of k bytes arrives in the buffer: a few bytes, the bytes up to
\* the end of a frame, or all there is.
Recv ==
    /\ chunks < MaxChunks
    /\ \E k \in (1..MaxChunk) \cup ToFrameEnd :
          /\ k >= 1 /\ k <= Len(wire)
          /\ buf' = buf \o SubSeq(wire, 1, k)
          /\ wire' = SubSeq(wire, k + 1, Len(wire))
    /\ chunks' = chunks + 1
    /\ NoCall
    /\ UNCHANGED <<fc, sent, emitted, failed>>
    /\ UNCHANGED <<aloneVars, asmVars, conn>>

\* The builds part only where min_len += payload_length passes 2^64, and
\* min_len is 14 at most there: the top byte of the length, in the codec or
\* still in the buffer, is 0xFF.
MayWrap(c, b) == c.payload_length[8] = 255 \/ \E i \in 1..Len(b) : b[i] = 255

\* fc.decode(&mut buf)
Decode ==
    /\ ret.kind # "Panic"
    /\ \E build \in {x \in Builds : x = "release" \/ MayWrap(fc, buf)} :
       \E r \in {decode(fc, buf, build)} :
              /\ fc' = r.c
              /\ buf' = r.buf
              /\ ret' = [kind |-> r.kind, msg |-> r.msg,
                         frame |-> IF r.kind = "Frame" THEN FrameFrom(r.c)
                                   ELSE NullFrame]
              /\ hdr' = IF fc.state = "NONE" /\ Len(buf) >= 2
                        THEN SubSeq(buf, 1, 2) ELSE <<>>
              /\ from' = fc.state
              /\ emitted' = IF r.kind = "Frame" /\ ~failed /\ Len(emitted) < MaxEmit
                            THEN Append(emitted, FrameFrom(r.c)) ELSE emitted
              /\ failed' = (failed \/ r.kind \in {"Err", "Panic"})
    /\ UNCHANGED <<wire, sent, chunks>>
    /\ UNCHANGED <<aloneVars, asmVars, conn>>

Next == SetClient \/ SetReservedBits \/ Send \/ SendWide \/ Inject \/ Recv \/ Decode

Spec == Init /\ [][Next]_vars

\* -------------------------------------------------------- encode run alone

\* payload_length values at the edges of the three length forms, and past
\* 2^32.
EncodeLengths ==
    {U64FromNat(n) : n \in {0, 1, 125, 126, 127, 65535, 65536}}
    \cup {<<b, 0, 0, 0, 1, 0, 0, 0>> : b \in {0, 1}}

\* Frames handed to encode: payload_length is a field of its own, set by
\* the caller, and one frame carries a payload.
EncodeInputs ==
    {[MkFrame(TRUE, 0, op, m, IF m THEN MaskKey ELSE U32Zero,
              IF len = U64FromNat(1) THEN <<97>> ELSE <<>>)
         EXCEPT !.payload_length = len] :
        op \in {"Binary", "Ping"}, m \in BOOLEAN, len \in EncodeLengths}

\* fc.encode(msg, &mut out_buf)
Encode ==
    /\ enc.n < MaxEncodes
    /\ \E msg \in EncodeInputs :
          enc' = [msg |-> msg, before |-> enc.out,
                  out |-> encode(msg, enc.out), n |-> enc.n + 1]
    /\ UNCHANGED <<codecVars, msk, asmVars, conn>>

NextEncode == Encode

SpecEncode == Init /\ [][NextEncode]_vars

\* ---------------------------------------------------- apply_mask run alone

\* Masks, as their 4 bytes least significant first.
MaskKeys == [1..4 -> {0, 15, 255}]

\* Buffers of up to MaxData bytes.
MaskBuffers == UNION {[1..k -> {0, 165}] : k \in 0..MaxData}

InitMask ==
    /\ CodecInit
    /\ EncInit
    /\ AsmInit
    /\ ConnInit
    /\ msk \in {[mask |-> m, data |-> d, out |-> d, n |-> 0] :
                    m \in MaskKeys, d \in MaskBuffers}

\* self.apply_mask(&mut buf, mask), on the buffer as the last call left it
ApplyMask ==
    /\ msk.n < MaxApply
    /\ msk' = [msk EXCEPT !.out = apply_mask(@, msk.mask), !.n = @ + 1]
    /\ UNCHANGED <<codecVars, enc, asmVars, conn>>

NextMask == ApplyMask

SpecMask == InitMask /\ [][NextMask]_vars

\* ------------------------------------------- the message assembler (4.3)

RECURSIVE Concat(_)
Concat(parts) == IF parts = <<>> THEN <<>> ELSE Head(parts) \o Concat(Tail(parts))

\* The connection fails: 1002 for "protocol", 1007 for "utf8".
AsmFail(a, kind) == [a EXCEPT !.err = kind]

\* A whole message goes to the Connection; no message is open.
AsmEmit(a, opcode, data) ==
    [a EXCEPT !.out = Append(@, [opcode |-> opcode, data |-> data]),
              !.open = FALSE, !.parts = <<>>]

\* The validator's verdict on the text so far; at the end of the message
\* the last sequence must be whole.
TextBad(opcode, bytes, fin) ==
    /\ opcode = "Text"
    /\ \/ Utf8Validate(bytes) = "invalid"
       \/ fin /\ Utf8Validate(bytes) = "incomplete"

\* A control frame that ends the open message on its way.
AsmControl_drops_open(a, f) ==
    [a EXCEPT !.up = Append(@, f), !.open = FALSE, !.parts = <<>>]

\* A control frame: handed upward unchanged.
AsmControl(a, f) == [a EXCEPT !.up = Append(@, f)]

\* A Text or Binary frame: a whole message, or the opener of a fragmented
\* one.
AsmData(a, f) ==
    IF a.open THEN AsmFail(a, "protocol")
    ELSE IF TextBad(f.opcode, f.data, f.fin) THEN AsmFail(a, "utf8")
    ELSE IF f.fin THEN AsmEmit(a, f.opcode, f.data)
    ELSE [a EXCEPT !.open = TRUE, !.opcode = f.opcode, !.parts = <<f.data>>]

\* A Continuation frame: the next fragment of the open message.
AsmContinue(a, f) ==
    IF ~a.open THEN AsmFail(a, "protocol")
    ELSE LET parts == Append(a.parts, f.data)
         IN  IF TextBad(a.opcode, Concat(parts), f.fin) THEN AsmFail(a, "utf8")
             ELSE IF f.fin THEN AsmEmit(a, a.opcode, Concat(parts))
             ELSE [a EXCEPT !.parts = parts]

\* One Frame from the codec.
AsmFeed(a, f) ==
    IF is_control(f.opcode) THEN AsmControl(a, f)
    ELSE IF f.opcode = "Continue" THEN AsmContinue(a, f)
    ELSE AsmData(a, f)

\* Frames the codec may hand over: data frames with the halves of "é",
\* a Ping and a Pong.
AsmFrames ==
    {[opcode |-> op, fin |-> fin, data |-> d] :
        op \in {"Text", "Binary", "Continue"}, fin \in BOOLEAN,
        d \in {<<195>>, <<169>>}}
    \cup {[opcode |-> op, fin |-> TRUE, data |-> <<112>>] : op \in {"Ping", "Pong"}}

\* The assembler takes the next Frame, as long as the connection has not
\* failed.
Feed ==
    /\ Len(fed) < MaxFed
    /\ asm.err = "ok"
    /\ \E f \in AsmFrames :
          /\ asm' = AsmFeed(asm, f)
          /\ fed' = Append(fed, f)
    /\ asm0' = asm
    /\ UNCHANGED <<codecVars, aloneVars, conn>>

NextAssembler == Feed

SpecAssembler == Init /\ [][NextAssembler]_vars

\* ------------------------------------------- the Connection (4.4, 5, 7)

CFrame(opcode, fin, data) == [opcode |-> opcode, fin |-> fin, data |-> data]

CloseFrame == CFrame("Close", TRUE, <<>>)

\* A frame that violates the protocol (section 7, ProtocolViolation).
BadFrame == CFrame("Reserved", TRUE, <<>>)

\* The messages an application sends: whole, or in two fragments.
Messages ==
    {<<CFrame("Text", TRUE, <<104, 105>>)>>,
     <<CFrame("Text", FALSE, <<104>>), CFrame("Continue", TRUE, <<105>>)>>}

\* The payloads an application pings with.
PingData == {<<7>>, <<8>>}

\* The table of 4.4, column "send Close".
OnSendClose(cs) ==
    CASE cs = "Open" -> "LocalClosing"
      [] cs = "LocalClosing" -> "LocalClosing"
      [] cs = "RemoteClosing" -> "Closed"
      [] cs = "Closed" -> "Closed"

\* A table whose LocalClosing row ignores the peer's Close.
OnRecvClose_ignored_when_closing(cs) ==
    CASE cs = "Open" -> "RemoteClosing"
      [] cs = "LocalClosing" -> "LocalClosing"
      [] cs = "RemoteClosing" -> "RemoteClosing"
      [] cs = "Closed" -> "Closed"

\* The table of 4.4, column "recv Close".
OnRecvClose(cs) ==
    CASE cs = "Open" -> "RemoteClosing"
      [] cs = "LocalClosing" -> "Closed"
      [] cs = "RemoteClosing" -> "RemoteClosing"
      [] cs = "Closed" -> "Closed"

\* The Connection in close state cs: once Closed it writes nothing more.
Enter(c, cs) ==
    IF cs = "Closed" /\ c.cs # "Closed"
    THEN [c EXCEPT !.cs = cs, !.via = c.cs, !.sending = <<>>, !.pend = <<>>]
    ELSE [c EXCEPT !.cs = cs]

\* A frame goes to the transport; a Close is the event "send Close", which
\* LocalClosing ignores and for which Closed does nothing.
WriteFrame(c, f) ==
    IF f.opcode = "Close"
    THEN IF c.cs \in {"Open", "RemoteClosing"}
         THEN Enter([c EXCEPT !.out = Append(@, f)], OnSendClose(c.cs))
         ELSE c
    ELSE [c EXCEPT !.out = Append(@, f)]

\* A send stream that does not wait for the message being written.
stream_free_always(c) == TRUE

\* The send stream takes another frame: no message is being written.
stream_free(c) == c.sending = <<>>

\* A control frame of the read loop goes to the send stream.
Queue(c, f) ==
    [c EXCEPT !.pend = Append(@, f),
              !.held = IF c.sending # <<>> THEN @ + 1 ELSE @]

\* The read loop routes one frame (4.4): in every state but Open anything
\* that is not a Close is dropped.
Route(c, f) ==
    IF f.opcode = "Close" THEN
        IF c.cs = "Open" THEN Queue(Enter(c, OnRecvClose(c.cs)), CloseFrame)
        ELSE Enter(c, OnRecvClose(c.cs))
    ELSE IF c.cs # "Open" THEN c
    ELSE IF f.opcode = "Ping"
         THEN Queue([c EXCEPT !.pings = Append(@, f.data)],
                    CFrame("Pong", TRUE, f.data))
    ELSE IF f.opcode = "Reserved"
         THEN Queue([c EXCEPT !.fatal = TRUE], CloseFrame)
    ELSE c

\* The frames written to the transport so far, both directions.
Written == Len(conn["a"].out) + Len(conn["b"].out)

\* The application may write: nothing waits for the send stream.
Idle_app(c) == c.sending = <<>> /\ c.pend = <<>>

\* send(Message): the first fragment is written, the others follow as the
\* transport takes them.
AppSend(e) ==
    /\ conn[e].cs = "Open"
    /\ Idle_app(conn[e])
    /\ \E frags \in Messages :
          /\ Written + Len(frags) <= MaxOut
          /\ conn' = [conn EXCEPT ![e] =
                 [WriteFrame(@, Head(frags)) EXCEPT !.sending = Tail(frags)]]
    /\ UNCHANGED <<codecVars, aloneVars, asmVars>>

\* The transport takes the next fragment of the message.
WriteMore(e) ==
    /\ conn[e].cs # "Closed"
    /\ conn[e].sending # <<>>
    /\ conn' = [conn EXCEPT ![e] =
           [WriteFrame(@, Head(conn[e].sending))
               EXCEPT !.sending = Tail(conn[e].sending)]]
    /\ UNCHANGED <<codecVars, aloneVars, asmVars>>

\* The send stream writes the control frame that waited longest.
WriteControl(e) ==
    /\ conn[e].cs # "Closed"
    /\ conn[e].pend # <<>>
    /\ stream_free(conn[e])
    /\ conn' = [conn EXCEPT ![e] =
           WriteFrame([@ EXCEPT !.pend = Tail(@)], Head(conn[e].pend))]
    /\ UNCHANGED <<codecVars, aloneVars, asmVars>>

\* ping(payload)
AppPing(e) ==
    /\ conn[e].cs = "Open"
    /\ Idle_app(conn[e])
    /\ Written < MaxOut
    /\ \E p \in PingData :
          conn' = [conn EXCEPT ![e] = WriteFrame(@, CFrame("Ping", TRUE, p))]
    /\ UNCHANGED <<codecVars, aloneVars, asmVars>>

\* close(code, reason)
AppClose(e) ==
    /\ Idle_app(conn[e])
    /\ conn' = [conn EXCEPT ![e] = WriteFrame(@, CloseFrame)]
    /\ UNCHANGED <<codecVars, aloneVars, asmVars>>

\* A peer that is no Connection writes a frame that violates the protocol.
WriteInvalid(e) ==
    /\ conn[e].cs = "Open"
    /\ Idle_app(conn[e])
    /\ Written < MaxOut
    /\ conn' = [conn EXCEPT ![e] = WriteFrame(@, BadFrame)]
    /\ UNCHANGED <<codecVars, aloneVars, asmVars>>

\* The read loop pulls the next frame of the peer.
ConnRecv(e) ==
    /\ conn[e].rd < Len(conn[Peer(e)].out)
    /\ conn' = [conn EXCEPT ![e] =
           Route([@ EXCEPT !.rd = @ + 1,
                           !.seen = IF conn[Peer(e)].out[conn[e].rd + 1].opcode = "Ping"
                                    THEN Append(@, conn[Peer(e)].out[conn[e].rd + 1].data)
                                    ELSE @],
                 conn[Peer(e)].out[conn[e].rd + 1])]
    /\ UNCHANGED <<codecVars, aloneVars, asmVars>>

\* After the Close of a protocol failure is sent the Connection is Closed
\* (4.4, failure semantics).
Terminate(e) ==
    /\ conn[e].fatal
    /\ conn[e].cs = "LocalClosing"
    /\ conn' = [conn EXCEPT ![e] = Enter(@, "Closed")]
    /\ UNCHANGED <<codecVars, aloneVars, asmVars>>

\* TransportError (7): no close frame is sent, the Connection is Closed.
TransportError(e) ==
    /\ conn[e].cs # "Closed"
    /\ conn' = [conn EXCEPT ![e] = Enter(@, "Closed")]
    /\ UNCHANGED <<codecVars, aloneVars, asmVars>>

NextConnection ==
    \E e \in Ends :
        \/ AppSend(e)
        \/ WriteMore(e)
        \/ WriteControl(e)
        \/ AppPing(e)
        \/ AppClose(e)
        \/ WriteInvalid(e)
        \/ ConnRecv(e)
        \/ Terminate(e)
        \/ TransportError(e)

SpecConnection == Init /\ [][NextConnection]_vars

\* ------------------------------------------------- what the claims speak of

\* The payload length as a number, past 2^24 - 1 as that.
LenOf(frame) ==
    IF U64Small(frame.payload_length) THEN U64ToNat(frame.payload_length)
    ELSE 16777215

DataOf(frame) == frame.application_data.v

\* The payload a frame written by encode carries once the receiver has
\* removed the mask.
WirePlain(msg) ==
    IF msg.masked THEN apply_mask(DataOf(msg), msg.mask) ELSE DataOf(msg)

\* The structural invariants of a Frame for a codec configured as c.
Structural(msg, c) ==
    /\ msg.opcode \in SendOpCodes
    /\ is_control(msg.opcode) => msg.fin /\ LenOf(msg) <= 125
    /\ msg.masked = c.client
    /\ ~msg.masked => msg.mask = U32Zero
    /\ msg.rsv1 => BitSet(c.reserved_bits, 2)
    /\ msg.rsv2 => BitSet(c.reserved_bits, 1)
    /\ msg.rsv3 => BitSet(c.reserved_bits, 0)
    /\ LenOf(msg) = Len(DataOf(msg))

\* A well-formed frame on the wire: structurally sound, and a Text payload
\* is UTF-8 (whole when the frame is final).
WellFormedOnWire(msg, c) ==
    /\ Structural(msg, c)
    /\ msg.opcode = "Text" =>
          Utf8Validate(WirePlain(msg)) \in
              (IF msg.fin THEN {"complete"} ELSE {"complete", "incomplete"})

\* Everything the peer wrote is a well-formed frame.
AllWellFormed ==
    /\ sent # <<>>
    /\ \A i \in 1..Len(sent) :
          sent[i].kind # "raw" /\ WellFormedOnWire(sent[i].msg, fc)

\* The Frame a correct decoder makes of a written frame.
Decoded(msg) ==
    [msg EXCEPT !.application_data =
        IF LenOf(msg) = 0 THEN None ELSE Some(WirePlain(msg))]

\* A codec configured as fc, before its first call.
FreshCodec == set_reserved_bits(set_client(DefaultCodec, fc.client), fc.reserved_bits)

\* The frames decode returns when it is called again and again on one
\* buffer, until it returns no frame or n frames are out.
RECURSIVE DecodeAll(_, _, _, _)
DecodeAll(c, b, n, build) ==
    IF n = 0 THEN <<>>
    ELSE LET r == decode(c, b, build)
         IN  IF r.kind = "Frame"
             THEN <<FrameFrom(r.c)>> \o DecodeAll(r.c, r.buf, n - 1, build)
             ELSE <<>>

\* The same, of all the bytes the peer wrote, fed at once.
AtOnce(build) == DecodeAll(FreshCodec, SentBytes(Len(sent)), MaxEmit, build)

IsPrefix(s, t) == s = <<>> \/ (Len(s) <= Len(t) /\ s = SubSeq(t, 1, Len(s)))

\* The opcode nibble of a header byte is a reserved code.
ReservedNibble(first) == (first % 16) \in (3..7) \cup (11..15)

\* ------------------------------------------------------------------ claims

\* C1: after decode returns a Frame the codec is back in NONE, so that two
\* well-formed frames A then B come out as A, then B.
C1_ResetAfterFrame ==
    /\ ret.kind = "Frame" => fc.state = "NONE"
    /\ (AllWellFormed /\ Len(sent) = 2 /\ Len(emitted) = 2) =>
          emitted = <<Decoded(sent[1].msg), Decoded(sent[2].msg)>>

\* C2: chunking independence. For a well-formed frame sequence, the frames
\* the chunked receiver has got are a prefix of the frames decode yields of
\* the whole byte sequence fed at once, and are all of them once the last
\* chunk is in and decode has returned no frame (or the history is full).
C2_ChunkingIndependence ==
    AllWellFormed =>
        \A build \in Builds :
            /\ IsPrefix(emitted, AtOnce(build))
            /\ (wire = <<>> /\ (ret.kind \in {"None", "Err"} \/ Len(emitted) = MaxEmit))
                  => emitted = AtOnce(build)

\* C2's case: a frame that came in several chunks and was returned.
C2_Witness ==
    /\ AllWellFormed
    /\ chunks >= 2
    /\ wire = <<>>
    /\ ret.kind = "None"
    /\ Len(emitted) = 1
    /\ buf = <<>>

\* C3: round trip. A structurally sound frame, encoded and decoded in one
\* piece, comes back as it was.
C3_RoundTrip ==
    (/\ Len(sent) = 1
     /\ sent[1].kind = "frame"
     /\ Structural(sent[1].msg, fc)
     /\ chunks = 1
     /\ wire = <<>>
     /\ from = "NONE")
    => (ret.kind = "Frame" /\ ret.frame = sent[1].msg)

\* C4: decoding a control frame fails when its fin bit is clear, and when
\* its payload length is above 125.
C4_ControlRules ==
    /\ (hdr # <<>> /\ is_control(OpCodeFrom(hdr[1] % 16)) /\ ~BitSet(hdr[1], 7))
          => ret.kind = "Err"
    /\ (/\ from \in {"NONE", "HEADER"}
        /\ fc.state \in {"LENGTH", "MASK", "FULL"}
        /\ is_control(fc.opcode)
        /\ U64Lt(U64FromNat(125), fc.payload_length))
          => ret.kind = "Err"

\* C4's case: the length of a control frame was read and is above 125.
C4_Witness ==
    /\ from \in {"NONE", "HEADER"}
    /\ fc.state = "LENGTH"
    /\ is_control(fc.opcode)
    /\ U64Lt(U64FromNat(125), fc.payload_length)
    /\ ret.kind = "Err"

\* C5: every Frame decode returns with a control opcode has fin set and a
\* payload length of at most 125, also after a failed call.
C5_EmittedControl ==
    (ret.kind = "Frame" /\ is_control(ret.frame.opcode)) =>
        (ret.frame.fin /\ ~U64Lt(U64FromNat(125), ret.frame.payload_length))

\* C6: a first decode call on a strict prefix of a well-formed frame
\* returns NeedsMore.
C6_PrefixNeedsMore ==
    (/\ AllWellFormed
     /\ Len(sent) = 1
     /\ chunks = 1
     /\ wire # <<>>
     /\ from = "NONE")
    => ret.kind = "None"

\* C7: a header with an rsv bit that reserved_bits does not enable fails,
\* an enabled rsv bit is no reason to fail, and a returned Frame has only
\* enabled rsv bits.
C7_ReservedBits ==
    /\ hdr # <<>> =>
          /\ (BitSet(hdr[1], 6) /\ ~BitSet(fc.reserved_bits, 2)) => ret.kind = "Err"
          /\ (BitSet(hdr[1], 5) /\ ~BitSet(fc.reserved_bits, 1)) => ret.kind = "Err"
          /\ (BitSet(hdr[1], 4) /\ ~BitSet(fc.reserved_bits, 0)) => ret.kind = "Err"
          /\ BitSet(fc.reserved_bits, 2) => ret.msg # "invalid rsv1 bit set"
          /\ BitSet(fc.reserved_bits, 1) => ret.msg # "invalid rsv2 bit set"
          /\ BitSet(fc.reserved_bits, 0) => ret.msg # "invalid rsv3 bit set"
    /\ ret.kind = "Frame" =>
          /\ ret.frame.rsv1 => BitSet(fc.reserved_bits, 2)
          /\ ret.frame.rsv2 => BitSet(fc.reserved_bits, 1)
          /\ ret.frame.rsv3 => BitSet(fc.reserved_bits, 0)

\* C7's case: a frame with an enabled rsv bit was returned by the call that
\* parsed its header.
C7_Witness ==
    /\ hdr # <<>>
    /\ BitSet(hdr[1], 6)
    /\ ret.kind = "Frame"
    /\ ret.frame.rsv1
    /\ ~BitSet(fc.reserved_bits, 1)

\* C8: a header with a reserved opcode fails, whatever its other bits, and
\* no Frame with a reserved opcode is returned.
C8_ReservedOpcodes ==
    /\ (hdr # <<>> /\ ReservedNibble(hdr[1])) => ret.kind = "Err"
    /\ ret.kind = "Frame" => ret.frame.opcode \in SendOpCodes

\* C8's case: a final frame with reserved opcode 0xB and no other fault.
C8_Witness ==
    /\ hdr # <<>>
    /\ hdr[1] = 139
    /\ ret.kind = "Err"
    /\ ret.msg = "invalid opcode set"

\* C9: with the peer a client, a header without the mask bit fails and
\* every returned Frame is masked.
C9_ClientMasked ==
    fc.client =>
        /\ (hdr # <<>> /\ ~BitSet(hdr[2], 7)) => ret.kind = "Err"
        /\ ret.kind = "Frame" => ret.frame.masked

\* C9's case: an unmasked header that has no other fault.
C9_Witness ==
    /\ fc.client
    /\ hdr # <<>>
    /\ ~BitSet(hdr[2], 7)
    /\ ret.msg = "all client frames must have a mask"

\* C10: with the peer a server, a header with the mask bit fails and every
\* returned Frame is unmasked.
C10_ServerUnmasked ==
    ~fc.client =>
        /\ (hdr # <<>> /\ BitSet(hdr[2], 7)) => ret.kind = "Err"
        /\ ret.kind = "Frame" => ~ret.frame.masked

\* The one frame the peer wrote, when it wrote one whole frame.
OneSent == Len(sent) = 1 /\ sent[1].kind # "raw"

\* C11: with the peer a server, a complete unmasked data frame with a
\* payload comes back as a Frame with mask 0 and the payload bytes of the
\* wire, payload_length of them.
C11_UnmaskedDelivered ==
    (/\ ~fc.client
     /\ OneSent
     /\ WellFormedOnWire(sent[1].msg, fc)
     /\ ~is_control(sent[1].msg.opcode)
     /\ LenOf(sent[1].msg) > 0
     /\ chunks = 1
     /\ wire = <<>>
     /\ from = "NONE")
    => /\ ret.kind = "Frame"
       /\ ret.frame.mask = U32Zero
       /\ ret.frame.application_data = Some(DataOf(sent[1].msg))
       /\ LenOf(ret.frame) = Len(DataOf(sent[1].msg))

\* A masked Text frame whose payload, once unmasked, is not UTF-8.
InvalidTextSent ==
    /\ fc.client
    /\ Len(sent) = 1
    /\ sent[1].kind = "frame"
    /\ Structural(sent[1].msg, fc)
    /\ sent[1].msg.opcode = "Text"
    /\ Utf8Validate(WirePlain(sent[1].msg)) = "invalid"

\* C12: a Text frame whose unmasked payload is not UTF-8 fails with the
\* UTF-8 error once its bytes are buffered, partial or whole, and is
\* never returned as a Frame.
C12_EarlyUtf8 ==
    InvalidTextSent =>
        /\ ret.kind # "Frame"
        /\ (wire = <<>> /\ ret.kind # "Idle") =>
              (ret.kind = "Err" /\ ret.msg = "error during UTF-8 validation")

\* C13: a 64-bit extended length with its high bit set fails the call that
\* reads it.
C13_HighBitRejected ==
    (/\ from \in {"NONE", "HEADER"}
     /\ fc.state \in {"LENGTH", "MASK", "FULL"}
     /\ fc.length_code = EIGHT_EXT
     /\ fc.payload_length[8] >= 128)
    => ret.kind = "Err"

\* C14: encode writes the 4 big-endian mask bytes and the payload XORed
\* with them for a masked Frame, and no mask bytes and the payload as it is
\* for an unmasked one.
C14_EncodeMasks ==
    \A i \in 1..Len(sent) :
        sent[i].kind = "frame" =>
            LET msg == sent[i].msg
                bytes == sent[i].bytes
                data == DataOf(msg)
                key == <<msg.mask[4], msg.mask[3], msg.mask[2], msg.mask[1]>>
                tail == IF msg.masked
                        THEN key \o [j \in 1..Len(data) |->
                                        Xor8(data[j], key[((j - 1) % 4) + 1])]
                        ELSE data
            IN  /\ Len(bytes) >= Len(tail)
                /\ SubSeq(bytes, Len(bytes) - Len(tail) + 1, Len(bytes)) = tail
                /\ Len(bytes) - Len(tail) \in {2, 4, 10}

\* C15: encode takes the shortest length form: up to 125 in the 7-bit
\* field, 126 to 65535 as code 126 and 2 big-endian bytes, 65536 and more
\* as code 127 and 8 big-endian bytes.
C15_ShortestLength ==
    enc.n > 0 =>
        LET len == enc.msg.payload_length
            added == SubSeq(enc.out, Len(enc.before) + 1, Len(enc.out))
            code == added[2] % 128
            rest == (IF enc.msg.masked THEN 4 ELSE 0) + Len(DataOf(enc.msg))
        IN  IF U64Small(len) /\ U64ToNat(len) <= 125
            THEN code = U64ToNat(len) /\ Len(added) = 2 + rest
            ELSE IF U64Small(len) /\ U64ToNat(len) <= 65535
            THEN /\ code = TWO_EXT
                 /\ added[3] * 256 + added[4] = U64ToNat(len)
                 /\ Len(added) = 4 + rest
            ELSE /\ code = EIGHT_EXT
                 /\ \A k \in 1..8 : added[2 + k] = len[9 - k]
                 /\ Len(added) = 10 + rest

\* C15's case: a payload_length of 65536 was encoded, after another frame.
C15_Witness ==
    /\ enc.n = 2
    /\ enc.msg.payload_length = U64FromNat(65536)
    /\ enc.out[Len(enc.before) + 2] % 128 = EIGHT_EXT

\* C16: apply_mask twice with one mask gives the data back, and once XORs
\* byte i with byte (i mod 4) of the big-endian mask.
C16_MaskSymmetry ==
    /\ msk.n % 2 = 0 => msk.out = msk.data
    /\ msk.n % 2 = 1 =>
          /\ Len(msk.out) = Len(msk.data)
          /\ \A i \in 1..Len(msk.data) :
                msk.out[i] = Xor8(msk.data[i], msk.mask[4 - ((i - 1) % 4)])

\* C16's case: a buffer longer than the mask, masked twice with a mask
\* whose bytes differ.
C16_Witness ==
    /\ msk.n = 2
    /\ Len(msk.data) > 4
    /\ msk.mask[1] # msk.mask[4]
    /\ msk.data[1] # msk.data[5]
    /\ msk.out = msk.data

\* The frame the assembler was handed last.
LastFed == fed[Len(fed)]

\* The data frames handed over since the opener of the message that is
\* open, the opener first.
RECURSIVE FragmentsFrom(_)
FragmentsFrom(i) ==
    IF i = 0 THEN <<>>
    ELSE IF is_control(fed[i].opcode) THEN FragmentsFrom(i - 1)
    ELSE IF fed[i].opcode = "Continue" THEN Append(FragmentsFrom(i - 1), fed[i])
    ELSE <<fed[i]>>

\* C17: with a fragmented message open a new Text or Binary frame is a
\* protocol violation, a Continuation with none open is one too, a control
\* frame goes upward and leaves the open message alone, and the message
\* comes out once, on the final Continuation, as the fragments' payloads
\* in order.
C17_Fragmentation ==
    fed # <<>> =>
        /\ (LastFed.opcode \in {"Text", "Binary"} /\ asm0.open)
              => asm.err = "protocol"
        /\ (LastFed.opcode = "Continue" /\ ~asm0.open) => asm.err = "protocol"
        /\ is_control(LastFed.opcode) =>
              asm = [asm0 EXCEPT !.up = Append(@, LastFed)]
        /\ (LastFed.opcode = "Continue" /\ LastFed.fin /\ asm.err = "ok") =>
              LET frs == FragmentsFrom(Len(fed))
              IN  /\ frs[1].opcode \in {"Text", "Binary"}
                  /\ asm.out = Append(asm0.out,
                        [opcode |-> frs[1].opcode,
                         data |-> Concat([i \in 1..Len(frs) |-> frs[i].data])])
                  /\ ~asm.open
        /\ (~LastFed.fin \/ asm.err # "ok") => asm.out = asm0.out
        /\ (~LastFed.fin /\ ~is_control(LastFed.opcode) /\ asm.err = "ok")
              => asm.open

\* C17's case: a Text message in two fragments with a Ping between them.
C17_Witness ==
    /\ Len(fed) = 3
    /\ fed[1].opcode = "Text" /\ ~fed[1].fin
    /\ fed[2].opcode = "Ping"
    /\ fed[3].opcode = "Continue" /\ fed[3].fin
    /\ asm.out = <<[opcode |-> "Text", data |-> <<195, 169>>]>>
    /\ asm.up = <<fed[2]>>

\* The frames of a sequence with one of the given opcodes, in order.
RECURSIVE Only(_, _)
Only(frames, opcodes) ==
    IF frames = <<>> THEN <<>>
    ELSE IF Head(frames).opcode \in opcodes
         THEN <<Head(frames)>> \o Only(Tail(frames), opcodes)
         ELSE Only(Tail(frames), opcodes)

\* The frame a step of the read loop of e pulls.
Pulled(e) == conn[Peer(e)].out[conn[e].rd + 1]

Reads(e) == conn'[e].rd = conn[e].rd + 1

\* The close states change along the handshake only.
HandshakeSteps ==
    {<<"Open", "LocalClosing">>, <<"LocalClosing", "Closed">>,
     <<"Open", "RemoteClosing">>, <<"RemoteClosing", "Closed">>}

\* Closed is absorbing, a Close that crosses the own Close closes the
\* Connection, and no endpoint writes a second Close.
CloseRest(e) ==
    /\ conn[e].cs = "Closed" => conn'[e].cs = "Closed" /\ conn'[e].out = conn[e].out
    /\ (conn[e].cs = "LocalClosing" /\ Reads(e) /\ Pulled(e).opcode = "Close")
          => conn'[e].cs = "Closed"
    /\ Len(Only(conn'[e].out, {"Close"})) <= 1

\* C18: the close state of a Connection only advances Open -> LocalClosing
\* -> Closed or Open -> RemoteClosing -> Closed, Closed is absorbing (a
\* later Close is dropped, nothing more is written), and when both ends
\* send Close at once each reaches Closed on the peer's Close.
C18_CloseHandshake ==
    [][\A e \in Ends :
          /\ conn'[e].cs # conn[e].cs => <<conn[e].cs, conn'[e].cs>> \in HandshakeSteps
          /\ CloseRest(e)]_vars

\* C18, amended: as C18, but a transport error takes a Connection from
\* any state straight to Closed, with no frame written and none read.
C18_CloseHandshakeOrError ==
    [][\A e \in Ends :
          /\ conn'[e].cs # conn[e].cs =>
                \/ <<conn[e].cs, conn'[e].cs>> \in HandshakeSteps
                \/ /\ conn'[e].cs = "Closed"
                   /\ conn'[e].out = conn[e].out
                   /\ conn'[e].rd = conn[e].rd
          /\ CloseRest(e)]_vars

\* Both ends sent Close while Open and each became Closed on the Close of
\* the other.
C18_Witness ==
    \A e \in Ends :
        /\ conn[e].cs = "Closed"
        /\ conn[e].via = "LocalClosing"
        /\ ~conn[e].fatal
        /\ conn[e].out = <<CloseFrame>>
        /\ conn[e].rd = 1

\* No frame stands between the fragments of one message.
NoInterleave(out) ==
    \A i \in 1..Len(out) - 1 :
        (out[i].opcode \in {"Text", "Binary", "Continue"} /\ ~out[i].fin)
            => out[i + 1].opcode = "Continue"

\* The payloads of the frames with the given opcode, in order.
Payloads(frames, opcode) ==
    [i \in 1..Len(Only(frames, {opcode})) |-> Only(frames, {opcode})[i].data]

\* C19: every Ping received is answered with a Pong of the same payload,
\* and the control frames sent automatically go through the one send
\* stream: no frame is written between the first and the last fragment of
\* a message.
C19_SingleSendStream ==
    \A e \in Ends :
        /\ NoInterleave(conn[e].out)
        /\ IsPrefix(Payloads(conn[e].out, "Pong"), conn[e].seen)
        /\ (conn[e].cs # "Closed" /\ Idle_app(conn[e]))
              => Payloads(conn[e].out, "Pong") = conn[e].seen

\* C19, amended: every Ping received while the Connection is Open is
\* answered with a Pong of the same payload unless the Connection is Closed
\* first; a Ping received in another state is dropped.
C19_SingleSendStreamWhileOpen ==
    \A e \in Ends :
        /\ NoInterleave(conn[e].out)
        /\ IsPrefix(conn[e].pings, conn[e].seen)
        /\ IsPrefix(Payloads(conn[e].out, "Pong"), conn[e].pings)
        /\ (conn[e].cs # "Closed" /\ Idle_app(conn[e]))
              => Payloads(conn[e].out, "Pong") = conn[e].pings

\* A Ping arrived while a message of two fragments was being written, and
\* its Pong followed the last fragment.
C19_Witness ==
    \E e \in Ends :
        /\ conn[e].held > 0
        /\ Len(conn[e].out) = 3
        /\ conn[e].out[1].opcode = "Text" /\ ~conn[e].out[1].fin
        /\ conn[e].out[2].opcode = "Continue" /\ conn[e].out[2].fin
        /\ conn[e].out[3] = CFrame("Pong", TRUE, <<8>>)
        /\ conn[e].pings = <<<<8>>>>

\* The header fields as the bytes of a written frame spell them: the flags
\* and the opcode of byte 0, the mask bit and the length code of byte 1,
\* the length in its short, 16-bit or 64-bit form, and the mask key after
\* the length, most significant byte first.
HeaderOf(bytes) ==
    LET first == bytes[1]
        second == bytes[2]
        code == second % 128
        ext == IF code = TWO_EXT THEN 2 ELSE IF code = EIGHT_EXT THEN 8 ELSE 0
    IN  [fin |-> BitSet(first, 7), rsv1 |-> BitSet(first, 6),
         rsv2 |-> BitSet(first, 5), rsv3 |-> BitSet(first, 4),
         opcode |-> OpCodeFrom(first % 16),
         masked |-> BitSet(second, 7),
         mask |-> IF BitSet(second, 7)
                  THEN [i \in 1..4 |-> bytes[2 + ext + (5 - i)]]
                  ELSE U32Zero,
         payload_length |->
             IF code = TWO_EXT THEN U64FromNat(bytes[3] * 256 + bytes[4])
             ELSE IF code = EIGHT_EXT THEN [i \in 1..8 |-> bytes[2 + (9 - i)]]
             ELSE U64FromNat(code)]

\* The header fields of a returned Frame.
FieldsOf(frame) ==
    [fin |-> frame.fin, rsv1 |-> frame.rsv1, rsv2 |-> frame.rsv2,
     rsv3 |-> frame.rsv3, opcode |-> frame.opcode, masked |-> frame.masked,
     mask |-> frame.mask, payload_length |-> frame.payload_length]

\* The k-th Frame decode returned has the header fields of the k-th frame
\* written, and no data when its length is 0.
ExtractedAt(k) ==
    /\ FieldsOf(emitted[k]) = HeaderOf(sent[k].bytes)
    /\ emitted[k].payload_length = U64Zero =>
          ~emitted[k].application_data.some /\ ~emitted[k].extension_data.some

\* C20: for every complete well-formed frame the Frame decode returns has
\* fin, rsv1, rsv2, rsv3 and opcode of byte 0, masked of bit 7 of byte 1,
\* mask the big-endian value of the mask-key bytes (0 when unmasked),
\* payload_length the decoded length and, when that is 0, neither
\* application_data nor extension_data.
C20_HeaderFields ==
    AllWellFormed =>
        \A k \in 1..Len(emitted) : k <= Len(sent) => ExtractedAt(k)

\* The bytes a decode step took off the front of the buffer.
Drained == Len(buf) - Len(buf')

\* The field the codec waits for is not whole in the buffer left.
FieldMissing(c, b) ==
    CASE c.state = "NONE" -> Len(b) < 2
      [] c.state = "HEADER" ->
            \/ c.length_code = TWO_EXT /\ Len(b) < 2
            \/ c.length_code = EIGHT_EXT /\ Len(b) < 8
      [] c.state = "LENGTH" -> c.masked /\ Len(b) < 4
      [] c.state = "MASK" -> U64Lt(U64FromNat(Len(b)), c.payload_length)
      [] c.state = "FULL" -> FALSE

\* A call that returned NeedsMore left the rest of the buffer as it was and
\* the codec at the stage before the field that is not whole yet.
StoppedBeforeField ==
    /\ buf' = SubSeq(buf, Drained + 1, Len(buf))
    /\ FieldMissing(fc', buf')

\* C21: when decode returns NeedsMore, from whichever state, the bytes of
\* the field it could not complete are still in the buffer, the state is
\* the last stage committed (NONE for a truncated header), and min_len is
\* what it was before the transition that failed: the bytes of the stages
\* this call committed.
C21_NeedsMoreKeepsState ==
    [][(ret'.kind = "None" /\ buf # <<>>) =>
          /\ StoppedBeforeField
          /\ fc'.min_len = U64FromNat(Drained)]_vars

\* The bytes decode has taken off the buffer so far.
Consumed == Received - Len(buf)

\* C22: every call of decode that returns a Frame has removed at least 2
\* bytes from the buffer since the Frame before it, so the Frames returned
\* of a finite buffer are finitely many and none is returned twice.
C22_DecodeProgress == Consumed >= 2 * Len(emitted)

\* The bytes of a frame on the wire, by the fields of the Frame returned
\* and the length code the codec read: header, extended length, mask key,
\* payload.
WireSize(frame, code) ==
    2 + (IF code = TWO_EXT THEN 2 ELSE IF code = EIGHT_EXT THEN 8 ELSE 0)
      + (IF frame.masked THEN 4 ELSE 0) + LenOf(frame)

\* Decode has consumed the written frames up to the k-th, whose size is
\* that of the Frame returned, and the bytes received after it are the
\* buffer.
ConsumedTo(k) ==
    /\ Consumed = Len(SentBytes(k))
    /\ WireSize(ret.frame, fc.length_code) = Len(sent[k].bytes)
    /\ buf = SubSeq(SentBytes(Len(sent)), Consumed + 1, Received)

\* C23: when decode returns a Frame (no call having failed before), it has
\* removed for that frame exactly 2 bytes, the 0, 2 or 8 bytes of the
\* extended length, 4 if masked and payload_length bytes, and the bytes
\* after the end of the frame are in the buffer, unmodified and in order.
C23_ExactConsumption ==
    (ret.kind = "Frame" /\ ~failed) =>
        /\ U64Small(ret.frame.payload_length)
        /\ \E k \in 1..Len(sent) : ConsumedTo(k)

\* A masked Frame with a 16-bit length was returned while bytes of the
\* next frame were in the buffer.
C23_Witness ==
    /\ ret.kind = "Frame" /\ ~failed
    /\ ret.frame.masked
    /\ fc.length_code = TWO_EXT
    /\ Len(sent) = 2
    /\ buf # <<>>
    /\ IsPrefix(buf, sent[2].bytes)

\* C24: min_len + payload_length in the MASK state stays below 2^64 for
\* every 64-bit length, so decode neither overflows the counter nor takes a
\* buffer shorter than the declared payload for the full payload.
C24_NoWrapAround ==
    /\ ~(ret.kind = "Panic" /\ ret.msg = "attempt to add with overflow")
    /\ ~(ret.kind = "Panic" /\ ret.msg = "drain_to")

====
